---- MODULE Spec2Model ----
(***************************************************************************)
(* Butler voice assistant: the wake/sleep main loop of                     *)
(* EnhancedProductionButler (src/src/main.py), the booking flow of         *)
(* RealConversationEngine (src/src/real_conversation_engine.py) and the    *)
(* bounded conversation histories.                                         *)
(***************************************************************************)
EXTENDS Integers, Sequences, FiniteSets, TLC

VARIABLES
    pc,                     \* position of the main loop
    now,                    \* time.time()
    is_awake,               \* EnhancedProductionButler.is_awake
    last_interaction_time,  \* EnhancedProductionButler.last_interaction_time
    active_booking,         \* EnhancedProductionButler.active_booking
    booking_data,           \* EnhancedProductionButler.booking_data
    booking_flows,          \* RealConversationEngine.booking_flows
    response,               \* texts spoken / returned by the latest step
    event,                  \* the latest step: what was heard and how it was routed
    stale_flow,             \* a flow was in progress when the session timed out
    hrg_history,            \* HumanResponseGenerator.conversation_history
    hrg_count,              \* exchanges appended per user since the last clear
    cm_history,             \* session['history'] of ConversationManager
    cm_count,               \* exchanges appended to the current session
    mm_history,             \* MemoryManager.conversation_history
    mm_count,               \* exchanges appended to the memory manager
    main_history,           \* EnhancedProductionButler.conversation_history
    main_count,             \* exchanges appended by the main loop
    active_dialogs,         \* DialogManager.active_dialogs
    raised,                 \* the exception the latest manager call raised, or None
    sessions,               \* SessionManager.sessions
    current_session_id,     \* SessionManager.current_session_id
    held_session,           \* the session object the caller got from get_current_session
    session_count,          \* uuid4 values drawn so far
    pending,                \* per task: the complete_booking call it is suspended in
    bookings_made           \* per user: complete_booking calls for the flow last started

butlerVars == <<pc, now, is_awake, last_interaction_time, active_booking, booking_data>>
histVars == <<hrg_history, hrg_count, cm_history, cm_count, mm_history, mm_count,
              main_history, main_count>>
dmVars == <<active_dialogs, raised>>
smVars == <<sessions, current_session_id, held_session, session_count>>
taskVars == <<pending, bookings_made>>
extVars == <<dmVars, smVars, taskVars>>
vars == <<butlerVars, booking_flows, response, event, stale_flow, histVars, extVars>>

----------------------------------------------------------------------------
(* Bounds *)

MaxTicks == 4
TickStep == 150
MaxOver == 2

(* Program constants *)

session_timeout == 300
HrgCapacity == 5
CmCapacity == 5
MmCapacity == 10
MainCapacity == 10

current_user_id == "default"
Users == {"default", "guest"}
\* the asyncio tasks that call the engine
Tasks == {"t1", "t2"}
None == "None"
\* last_interaction_time before the loop starts (None)
NoTime == -1

----------------------------------------------------------------------------
(* Utterances and Python's substring test `word in text.lower()` *)

Utterances == {"hello", "butler", "butler plumber", "stop", "i need a plumber",
               "yes", "emergency", "feedback", "how much", "what can you do",
               "thanks", "quit", "nonstop"}

EngineUtterances == {"hello", "i need a plumber", "yes"}

RatingTexts == {"", "hello", "5"}

\* the keywords of the program's word lists that occur in each utterance
Kw(u) ==
    CASE u = "hello"            -> {"hello"}
      [] u = "butler"           -> {"butler"}
      [] u = "butler plumber"   -> {"butler", "plumber"}
      [] u = "stop"             -> {"stop"}
      [] u = "i need a plumber" -> {"plumber"}
      [] u = "yes"              -> {"yes"}
      [] u = "emergency"        -> {"emergency"}
      [] u = "feedback"         -> {"feedback", "ac"}
      [] u = "how much"         -> {"how much"}
      [] u = "what can you do"  -> {"what can you do"}
      [] u = "thanks"           -> {"thank", "thanks"}
      [] u = "nonstop"          -> {"stop"}
      [] OTHER                  -> {}

AnyIn(words, u) == (words \cap Kw(u)) # {}

ExitWords == {"sleep", "goodbye", "bye", "exit", "stop"}
EmergencyWords == {"emergency", "urgent", "help now", "immediately"}
PaymentWords == {"pay", "payment", "cost", "price", "how much"}
CapabilityWords == {"what can you do", "capabilities", "features"}
wake_word == "butler"

\* int(''.join(filter(str.isdigit, rating_text))): 0 stands for ValueError
Rating(t) == IF t = "5" THEN 5 ELSE 0

----------------------------------------------------------------------------
(* Python dicts *)

EmptyDict == [k \in {} |-> None]
Put_EveryKey(d, k, v) == [x \in (DOMAIN d) \cup {k} |-> v]

Put(d, k, v) == [x \in (DOMAIN d) \cup {k} |-> IF x = k THEN v ELSE d[x]]
Del(d, k) == [x \in (DOMAIN d) \ {k} |-> d[x]]
\* no session object held by the caller yet
NoSession == EmptyDict
\* a task that is not inside a call
NoCall == EmptyDict

----------------------------------------------------------------------------
(* RealConversationEngine *)

Steps == <<"problem_details", "timing", "location", "confirmation">>

\* the step a filled step hands over to (flow['step'] = ...)
NextStep_SkipsLocation(step) ==
    CASE step = "problem_details" -> "timing"
      [] step = "timing" -> "confirmation"
      [] step = "location" -> "confirmation"
      [] OTHER -> step

NextStep_Rewinds(step) ==
    CASE step = "problem_details" -> "timing"
      [] step = "timing" -> "location"
      [] step = "location" -> "problem_details"
      [] OTHER -> step

NextStep(step) ==
    CASE step = "problem_details" -> "timing"
      [] step = "timing" -> "location"
      [] step = "location" -> "confirmation"
      [] OTHER -> step

StartBookingFlow_AtConfirmation(flows, user_id, service_type) ==
    Put(flows, user_id,
        [service_type |-> service_type, step |-> "confirmation", data |-> EmptyDict])

StartBookingFlow_AtTiming(flows, user_id, service_type) ==
    Put(flows, user_id,
        [service_type |-> service_type, step |-> "timing", data |-> EmptyDict])

StartBookingFlow(flows, user_id, service_type) ==
    Put(flows, user_id,
        [service_type |-> service_type, step |-> "problem_details", data |-> EmptyDict])

\* complete_booking: one of the three booking_responses; never fails
CompleteBooking(data) == "booking_confirmed"

Confirms_Never(u) == FALSE

\* `'yes' in user_input.lower() or 'confirm' in user_input.lower()`
Confirms(u) == AnyIn({"yes", "confirm"}, u)

\* the result: the flows afterwards, the text returned, the calls of complete_booking
ContinueBookingFlow(flows, u, user_id) ==
    IF user_id \notin DOMAIN flows
    THEN [flows |-> flows, text |-> "ready_to_help", booked |-> 0]
    ELSE LET flow == flows[user_id]
             Adv(slot) == Put(flows, user_id,
                              [flow EXCEPT !.data = Put(flow.data, slot, u),
                                           !.step = NextStep(flow.step)])
         IN  CASE flow.step = "problem_details" ->
                    [flows |-> Adv("problem"),
                     text |-> "timing_question", booked |-> 0]
               [] flow.step = "timing" ->
                    [flows |-> Adv("timing"),
                     text |-> "location_question", booked |-> 0]
               [] flow.step = "location" ->
                    [flows |-> Adv("location"),
                     text |-> "booking_confirmation", booked |-> 0]
               [] flow.step = "confirmation" ->
                    IF Confirms(u)
                    THEN [flows |-> Del(flows, user_id),
                          text |-> CompleteBooking(flow.data), booked |-> 1]
                    ELSE [flows |-> Del(flows, user_id),
                          text |-> "booking_cancelled", booked |-> 0]
               [] OTHER ->
                    [flows |-> flows, text |-> "continue_prompt", booked |-> 0]

ProcessRealQuery(flows, u, user_id) ==
    LET Started(st, txt) == [flows |-> StartBookingFlow(flows, user_id, st),
                             text |-> txt, booked |-> 0]
        Plain(txt) == [flows |-> flows, text |-> txt, booked |-> 0]
    IN  IF user_id \in DOMAIN flows THEN ContinueBookingFlow(flows, u, user_id)
        ELSE IF AnyIn({"plumber", "plumbing", "leak", "pipe", "drain"}, u)
             THEN Started("plumber", "plumbing_request")
        ELSE IF AnyIn({"electrician", "electrical", "electric", "wiring", "fuse", "power"}, u)
             THEN Started("electrician", "electrical_request")
        ELSE IF AnyIn({"clean", "cleaning", "cleaner", "maid", "housekeeping"}, u)
             THEN Started("cleaner", "cleaning_request")
        ELSE IF AnyIn({"carpenter", "furniture", "woodwork", "cabinet", "repair"}, u)
             THEN Started("carpenter", "carpenter_request")
        ELSE IF AnyIn({"ac", "air conditioner", "cooling", "ac repair"}, u)
             THEN Started("ac_repair", "ac_repair_request")
        ELSE IF AnyIn({"book", "appointment", "schedule"}, u) THEN Plain("ask_service")
        ELSE IF AnyIn(EmergencyWords, u) THEN Plain("emergency")
        ELSE IF AnyIn({"price", "cost", "how much", "payment"}, u) THEN Plain("payment")
        ELSE IF AnyIn({"recommend", "suggest", "best", "good"}, u) THEN Plain("recommendation")
        ELSE IF AnyIn({"hello", "hi", "hey", "good morning"}, u) THEN Plain("greeting")
        ELSE IF AnyIn({"thank", "thanks", "thank you"}, u) THEN Plain("thanks")
        ELSE IF AnyIn({"what can you do", "help", "services"}, u) THEN Plain("capabilities")
        ELSE Plain("general")

\* extract_service_type: the classifier the router consults
ExtractServiceType(u) ==
    IF AnyIn({"plumber", "plumbing", "leak", "pipe", "drain"}, u) THEN "plumber"
    ELSE "service professional"

----------------------------------------------------------------------------
(* EnhancedProductionButler: the main loop.  The histories the handlers    *)
(* append to never steer the dialog state; their updates are the actions   *)
(* of SpecHist below.                                                      *)

Ev(kind, text, booked) ==
    [kind |-> kind, text |-> text, user |-> current_user_id, booked |-> booked]

Init ==
    /\ pc = "init"
    /\ now = 0
    /\ is_awake = FALSE
    /\ last_interaction_time = NoTime
    /\ active_booking = None
    /\ booking_data = EmptyDict
    /\ booking_flows = EmptyDict
    /\ response = <<>>
    /\ event = Ev("init", "", 0)
    /\ stale_flow = FALSE
    /\ hrg_history = EmptyDict
    /\ hrg_count = EmptyDict
    /\ cm_history = <<>>
    /\ cm_count = 0
    /\ mm_history = <<>>
    /\ mm_count = 0
    /\ main_history = <<>>
    /\ main_count = 0
    /\ active_dialogs = EmptyDict
    /\ raised = None
    /\ sessions = EmptyDict
    /\ current_session_id = None
    /\ held_session = NoSession
    /\ session_count = 0
    /\ pending = [t \in Tasks |-> NoCall]
    /\ bookings_made = [usr \in Users |-> 0]

\* time passes (while the loop is blocked in the recogniser or speaking)
Tick ==
    /\ now < MaxTicks * TickStep
    /\ now' = now + TickStep
    /\ response' = <<>>
    /\ event' = Ev("tick", "", 0)
    /\ UNCHANGED <<extVars, pc, is_awake, last_interaction_time, active_booking, booking_data,
                   booking_flows, stale_flow, histVars>>

StartEnhancedProductionMode ==
    /\ pc = "init"
    /\ last_interaction_time' = now
    /\ response' = <<"hello_intro">>
    /\ event' = Ev("start", "", 0)
    /\ pc' = "loop_top"
    /\ UNCHANGED <<extVars, now, is_awake, active_booking, booking_data, booking_flows,
                   stale_flow, histVars>>

ShouldSleep_Never == FALSE

\* _should_sleep
ShouldSleep ==
    IF last_interaction_time = NoTime THEN FALSE
    ELSE (now - last_interaction_time) > session_timeout

\* _reset_conversation_state
ResetConversationState ==
    /\ active_booking' = None
    /\ booking_data' = EmptyDict
    /\ hrg_history' = Del(hrg_history, current_user_id)
    /\ hrg_count' = Del(hrg_count, current_user_id)

\* the top of one loop iteration: the timeout check, then the branch on is_awake
LoopTop ==
    /\ pc = "loop_top"
    /\ IF ShouldSleep /\ is_awake
       THEN /\ response' = <<"timeout_sleep">>
            /\ is_awake' = FALSE
            /\ ResetConversationState
            /\ event' = Ev("timeout", "", 0)
            /\ stale_flow' = (current_user_id \in DOMAIN booking_flows)
            /\ pc' = "wait_for_wake_word"
       ELSE /\ response' = <<>>
            /\ event' = Ev("loop", "", 0)
            /\ pc' = IF is_awake THEN "listen_command" ELSE "wait_for_wake_word"
            /\ UNCHANGED <<extVars, is_awake, active_booking, booking_data, stale_flow,
                           hrg_history, hrg_count>>
    /\ UNCHANGED <<extVars, now, last_interaction_time, booking_flows,
                   cm_history, cm_count, mm_history, mm_count, main_history, main_count>>

WakeDetected_ExactMatch(u) == u = wake_word

WakeDetected_AnySpeech(u) == TRUE

\* `self.wake_word in text` of wait_for_wake_word
WakeDetected(u) == wake_word \in Kw(u)

HearWake_NoRefresh(u) ==
    /\ pc = "wait_for_wake_word"
    /\ WakeDetected(u)
    /\ is_awake' = TRUE
    /\ response' = <<"yes_how_can_i_help", "yes_i_am_here">>
    /\ event' = Ev("wake", u, 0)
    /\ pc' = "loop_top"
    /\ UNCHANGED <<extVars, now, last_interaction_time, active_booking, booking_data,
                   booking_flows, stale_flow, histVars>>

\* wait_for_wake_word returns True; the loop wakes the session
HearWake(u) ==
    /\ pc = "wait_for_wake_word"
    /\ WakeDetected(u)
    /\ is_awake' = TRUE
    /\ last_interaction_time' = now
    /\ response' = <<"yes_how_can_i_help", "yes_i_am_here">>
    /\ event' = Ev("wake", u, 0)
    /\ pc' = "loop_top"
    /\ UNCHANGED <<extVars, now, active_booking, booking_data, booking_flows, stale_flow, histVars>>

\* wait_for_wake_word hears something else and keeps waiting
HearNonWake(u) ==
    /\ pc = "wait_for_wake_word"
    /\ ~WakeDetected(u)
    /\ response' = <<>>
    /\ event' = Ev("nonwake", u, 0)
    /\ UNCHANGED <<extVars, butlerVars, booking_flows, stale_flow, histVars>>

ListenSilence_Refreshes ==
    /\ pc = "listen_command"
    /\ last_interaction_time' = now
    /\ response' = <<>>
    /\ event' = Ev("silence", "", 0)
    /\ pc' = "loop_top"
    /\ UNCHANGED <<extVars, now, is_awake, active_booking, booking_data,
                   booking_flows, stale_flow, histVars>>

\* listen_command returns "" (timeout, unintelligible speech, recogniser error)
ListenSilence ==
    /\ pc = "listen_command"
    /\ response' = <<>>
    /\ event' = Ev("silence", "", 0)
    /\ pc' = "loop_top"
    /\ UNCHANGED <<extVars, now, is_awake, last_interaction_time, active_booking, booking_data,
                   booking_flows, stale_flow, histVars>>

IsExit(u) == AnyIn(ExitWords, u)

\* a sleep/exit command
ExitCommand(u) ==
    /\ pc = "listen_command"
    /\ IsExit(u)
    /\ last_interaction_time' = now
    /\ response' = <<"going_to_sleep">>
    /\ is_awake' = FALSE
    /\ ResetConversationState
    /\ event' = Ev("exit", u, 0)
    /\ stale_flow' = FALSE
    /\ pc' = "loop_top"
    /\ UNCHANGED <<extVars, now, booking_flows,
                   cm_history, cm_count, mm_history, mm_count, main_history, main_count>>

ButlerCommand_Routed(u) ==
    /\ pc = "listen_command"
    /\ ~IsExit(u)
    /\ wake_word \in Kw(u)
    /\ last_interaction_time' = now
    /\ response' = <<"yes_i_am_listening">>
    /\ booking_flows' = ProcessRealQuery(booking_flows, u, current_user_id).flows
    /\ event' = Ev("butler", u, 0)
    /\ stale_flow' = FALSE
    /\ pc' = "loop_top"
    /\ UNCHANGED <<extVars, now, is_awake, active_booking, booking_data, histVars>>

\* the wake word while already awake
ButlerCommand(u) ==
    /\ pc = "listen_command"
    /\ ~IsExit(u)
    /\ wake_word \in Kw(u)
    /\ last_interaction_time' = now
    /\ response' = <<"yes_i_am_listening">>
    /\ event' = Ev("butler", u, 0)
    /\ stale_flow' = FALSE
    /\ pc' = "loop_top"
    /\ UNCHANGED <<extVars, now, is_awake, active_booking, booking_data, booking_flows, histVars>>

\* handle_feedback_request: the rating is listened for inside the handler
FeedbackCommand(u, rating_text) ==
    /\ pc = "listen_command"
    /\ ~IsExit(u)
    /\ wake_word \notin Kw(u)
    /\ "feedback" \in Kw(u)
    /\ last_interaction_time' = now
    /\ response' = IF Rating(rating_text) >= 1 /\ Rating(rating_text) <= 5
                   THEN <<"ask_rating", "ask_comment", "thank_you_rating">>
                   ELSE <<"ask_rating", "rating_not_caught">>
    /\ event' = Ev("feedback", u, 0)
    /\ stale_flow' = FALSE
    /\ pc' = "loop_top"
    /\ UNCHANGED <<extVars, now, is_awake, active_booking, booking_data, booking_flows, histVars>>

IsCommand(u) == ~IsExit(u) /\ wake_word \notin Kw(u) /\ "feedback" \notin Kw(u)

\* process_real_time_conversation with intelligent_conversation_router,
\* start_service_booking and handle_emergency_request
Converse(u) ==
    /\ pc = "listen_command"
    /\ IsCommand(u)
    /\ last_interaction_time' = now
    /\ IF current_user_id \in DOMAIN booking_flows
       THEN LET r == ProcessRealQuery(booking_flows, u, current_user_id)
            IN  /\ booking_flows' = r.flows
                /\ response' = <<r.text>>
                /\ event' = Ev("continue", u, r.booked)
       ELSE IF AnyIn(EmergencyWords, u)
       THEN /\ booking_flows' = StartBookingFlow(booking_flows, current_user_id,
                                                 ExtractServiceType(u))
            /\ response' = <<"emergency_response">>
            /\ event' = Ev("emergency", u, 0)
       ELSE IF ExtractServiceType(u) # "service professional"
       THEN LET started == StartBookingFlow(booking_flows, current_user_id,
                                            ExtractServiceType(u))
                r == ProcessRealQuery(started, u, current_user_id)
            IN  /\ booking_flows' = r.flows
                /\ response' = <<r.text>>
                /\ event' = Ev("start", u, r.booked)
       ELSE /\ booking_flows' = booking_flows
            /\ response' = IF AnyIn(PaymentWords, u) THEN <<"payment">>
                           ELSE IF AnyIn(CapabilityWords, u) THEN <<"capabilities">>
                           ELSE <<"human_response">>
            /\ event' = Ev("chat", u, 0)
    /\ stale_flow' = FALSE
    /\ pc' = "loop_top"
    /\ UNCHANGED <<extVars, now, is_awake, active_booking, booking_data, histVars>>

ConverseClassifierError_Unhandled(u) ==
    /\ pc = "listen_command"
    /\ IsCommand(u)
    /\ current_user_id \notin DOMAIN booking_flows
    /\ last_interaction_time' = now
    /\ response' = <<>>
    /\ event' = Ev("error", u, 0)
    /\ stale_flow' = FALSE
    /\ pc' = "loop_top"
    /\ UNCHANGED <<extVars, now, is_awake, active_booking, booking_data, booking_flows, histVars>>

\* the classifier raises inside the router: the except branch of
\* process_real_time_conversation answers
ConverseClassifierError(u) ==
    /\ pc = "listen_command"
    /\ IsCommand(u)
    /\ current_user_id \notin DOMAIN booking_flows
    /\ last_interaction_time' = now
    /\ response' = <<"trouble_processing">>
    /\ event' = Ev("error", u, 0)
    /\ stale_flow' = FALSE
    /\ pc' = "loop_top"
    /\ UNCHANGED <<extVars, now, is_awake, active_booking, booking_data, booking_flows, histVars>>

Next ==
    \/ Tick
    \/ StartEnhancedProductionMode
    \/ LoopTop
    \/ \E u \in Utterances : HearWake(u)
    \/ \E u \in Utterances : HearNonWake(u)
    \/ ListenSilence
    \/ \E u \in Utterances : ExitCommand(u)
    \/ \E u \in Utterances : ButlerCommand(u)
    \/ \E u \in Utterances, t \in RatingTexts : FeedbackCommand(u, t)
    \/ \E u \in Utterances : Converse(u)
    \/ \E u \in Utterances : ConverseClassifierError(u)

Spec == Init /\ [][Next]_vars

\* the running loop: an iteration always reaches its timeout check, and
\* listen_command returns when its listening timeout expires
SpecLive ==
    /\ Init
    /\ [][Next]_vars
    /\ WF_vars(StartEnhancedProductionMode)
    /\ WF_vars(LoopTop)
    /\ WF_vars(ListenSilence)

----------------------------------------------------------------------------
(* RealConversationEngine driven directly, for several users *)

ServiceTypes == {"plumber", "service professional"}

EngEv(kind, text, user_id, booked) ==
    [kind |-> kind, text |-> text, user |-> user_id, booked |-> booked]

EngineStartBookingFlow(user_id, service_type) ==
    /\ booking_flows' = StartBookingFlow(booking_flows, user_id, service_type)
    /\ response' = <<>>
    /\ event' = EngEv("start_booking_flow", "", user_id, 0)
    /\ UNCHANGED <<extVars, butlerVars, stale_flow, histVars>>

EngineContinueBookingFlow(u, user_id) ==
    LET r == ContinueBookingFlow(booking_flows, u, user_id)
    IN  /\ booking_flows' = r.flows
        /\ response' = <<r.text>>
        /\ event' = EngEv("continue_booking_flow", u, user_id, r.booked)
        /\ UNCHANGED <<extVars, butlerVars, stale_flow, histVars>>

EngineProcessRealQuery(u, user_id) ==
    LET r == ProcessRealQuery(booking_flows, u, user_id)
    IN  /\ booking_flows' = r.flows
        /\ response' = <<r.text>>
        /\ event' = EngEv("process_real_query", u, user_id, r.booked)
        /\ UNCHANGED <<extVars, butlerVars, stale_flow, histVars>>

NextEngine ==
    \/ \E usr \in Users, st \in ServiceTypes : EngineStartBookingFlow(usr, st)
    \/ \E usr \in Users, u \in EngineUtterances : EngineContinueBookingFlow(u, usr)
    \/ \E usr \in Users, u \in EngineUtterances : EngineProcessRealQuery(u, usr)

SpecEngine == Init /\ [][NextEngine]_vars

----------------------------------------------------------------------------
(* The bounded histories.  An entry is the number of the exchange it       *)
(* records, counted per buffer since the buffer was last emptied.          *)

Min(a, b) == IF a <= b THEN a ELSE b

LastN_KeepsOldest(h, n) == SubSeq(h, 1, Min(n, Len(h)))

\* the Python slice h[-n:]
LastN(h, n) == IF Len(h) <= n THEN h ELSE SubSeq(h, Len(h) - n + 1, Len(h))

Get(d, k, default) == IF k \in DOMAIN d THEN d[k] ELSE default

\* the history update of generate_conversation_response
GenerateConversationResponse(user_id) ==
    /\ Get(hrg_count, user_id, 0) < HrgCapacity + MaxOver
    /\ LET n == Get(hrg_count, user_id, 0) + 1
           history == Append(Get(hrg_history, user_id, <<>>), n)
       IN  /\ hrg_history' = Put(hrg_history, user_id,
                                 IF Len(history) > HrgCapacity
                                 THEN LastN(history, HrgCapacity) ELSE history)
           /\ hrg_count' = Put(hrg_count, user_id, n)
    /\ UNCHANGED <<extVars, butlerVars, booking_flows, response, event, stale_flow,
                   cm_history, cm_count, mm_history, mm_count, main_history, main_count>>

ClearConversationHistory(user_id) ==
    /\ user_id \in DOMAIN hrg_history
    /\ hrg_history' = Del(hrg_history, user_id)
    /\ hrg_count' = Del(hrg_count, user_id)
    /\ UNCHANGED <<extVars, butlerVars, booking_flows, response, event, stale_flow,
                   cm_history, cm_count, mm_history, mm_count, main_history, main_count>>

\* the history update of ConversationManager.update_context
UpdateContext ==
    /\ cm_count < CmCapacity + MaxOver
    /\ cm_history' = LastN(Append(cm_history, cm_count + 1), CmCapacity)
    /\ cm_count' = cm_count + 1
    /\ UNCHANGED <<extVars, butlerVars, booking_flows, response, event, stale_flow,
                   hrg_history, hrg_count, mm_history, mm_count, main_history, main_count>>

\* SessionManager._create_new_session: the current session starts with no history
CreateNewSession ==
    /\ cm_count > 0
    /\ cm_history' = <<>>
    /\ cm_count' = 0
    /\ UNCHANGED <<extVars, butlerVars, booking_flows, response, event, stale_flow,
                   hrg_history, hrg_count, mm_history, mm_count, main_history, main_count>>

\* the history update of MemoryManager.update_conversation
UpdateConversation ==
    /\ mm_count < MmCapacity + MaxOver
    /\ LET history == Append(mm_history, mm_count + 1)
       IN  mm_history' = IF Len(history) > MmCapacity
                         THEN LastN(history, MmCapacity) ELSE history
    /\ mm_count' = mm_count + 1
    /\ UNCHANGED <<extVars, butlerVars, booking_flows, response, event, stale_flow,
                   hrg_history, hrg_count, cm_history, cm_count, main_history, main_count>>

\* the history update of process_real_time_conversation
TrackConversation ==
    /\ main_count < MainCapacity + MaxOver
    /\ LET history == Append(main_history, main_count + 1)
       IN  main_history' = IF Len(history) > MainCapacity
                           THEN LastN(history, MainCapacity) ELSE history
    /\ main_count' = main_count + 1
    /\ UNCHANGED <<extVars, butlerVars, booking_flows, response, event, stale_flow,
                   hrg_history, hrg_count, cm_history, cm_count, mm_history, mm_count>>

NextHist ==
    \/ \E usr \in Users : GenerateConversationResponse(usr)
    \/ \E usr \in Users : ClearConversationHistory(usr)
    \/ UpdateContext
    \/ CreateNewSession
    \/ UpdateConversation
    \/ TrackConversation

SpecHist == Init /\ [][NextHist]_vars

----------------------------------------------------------------------------
(* DialogManager (src/src/conversation/dialog_manager.py), driven directly *)

DialogIds == {"s1", "s2"}
FlowTypes == {"booking_flow", "service_search_flow"}
DialogInputs == {"plumber", "tomorrow"}
\* start_dialog's initial_context: None (or an empty dict), or a filled dict
InitialContexts == {EmptyDict, [k \in {"service_type"} |-> "plumber"]}

conversation_flows ==
    [booking_flow |->
         <<"confirm_service", "get_datetime", "get_contact_info", "confirm_booking">>,
     service_search_flow |->
         <<"get_service_type", "get_location", "show_results">>]

\* the prompts table of get_next_prompt
Prompt(step) ==
    CASE step = "confirm_service" -> "which_service"
      [] step = "get_datetime" -> "when"
      [] step = "get_contact_info" -> "phone_number"
      [] step = "confirm_booking" -> "shall_i_confirm"
      [] step = "get_service_type" -> "what_type"
      [] step = "get_location" -> "which_area"
      [] step = "show_results" -> "here_are_providers"
      [] OTHER -> "how_can_i_help"

\* the context key process_user_response writes at a step; None: it writes nothing
SlotOf(step) ==
    CASE step = "get_service_type" -> "service_type"
      [] step = "get_location" -> "location"
      [] step = "get_datetime" -> "datetime"
      [] step = "get_contact_info" -> "phone"
      [] OTHER -> None

StartDialog(dialogs, session_id, flow_type, initial_context) ==
    Put(dialogs, session_id,
        [flow_type |-> flow_type, current_step |-> 0,
         context |-> initial_context, completed |-> FALSE])

\* flow_steps[dialog['current_step']] raises IndexError outside 0..len-1
InRange(dialog) == dialog.current_step < Len(conversation_flows[dialog.flow_type])

CurrentStep(dialog) == conversation_flows[dialog.flow_type][dialog.current_step + 1]

PastLastStep_Strict(step, n) == step > n

\* `dialog['current_step'] >= len(flow_steps)`
PastLastStep(step, n) == step >= n

GetNextPrompt(dialogs, session_id) ==
    IF session_id \notin DOMAIN dialogs
    THEN [text |-> None, raised |-> None]
    ELSE IF ~InRange(dialogs[session_id])
    THEN [text |-> None, raised |-> "IndexError"]
    ELSE [text |-> Prompt(CurrentStep(dialogs[session_id])), raised |-> None]

ProcessUserResponse(dialogs, session_id, user_input) ==
    IF session_id \notin DOMAIN dialogs
    THEN [dialogs |-> dialogs, text |-> "error_no_active_dialog", raised |-> None]
    ELSE IF ~InRange(dialogs[session_id])
    THEN [dialogs |-> dialogs, text |-> None, raised |-> "IndexError"]
    ELSE LET dialog == dialogs[session_id]
             slot == SlotOf(CurrentStep(dialog))
             context == IF slot = None THEN dialog.context
                        ELSE Put(dialog.context, slot, user_input)
             step == dialog.current_step + 1
             past == PastLastStep(step, Len(conversation_flows[dialog.flow_type]))
             moved == Put(dialogs, session_id,
                          [dialog EXCEPT !.context = context,
                                         !.current_step = step,
                                         !.completed = IF past THEN TRUE ELSE @])
             prompt == GetNextPrompt(moved, session_id)
         IN  IF past
             THEN [dialogs |-> moved, text |-> None, raised |-> None]
             ELSE [dialogs |-> moved, text |-> prompt.text, raised |-> prompt.raised]

\* what a call hands back: its return value, or nothing when it raised
Returned(r) == IF r.raised = None THEN <<r.text>> ELSE <<>>

DmStartDialog(session_id, flow_type, initial_context) ==
    LET started == StartDialog(active_dialogs, session_id, flow_type, initial_context)
        r == GetNextPrompt(started, session_id)
    IN  /\ active_dialogs' = started
        /\ raised' = r.raised
        /\ response' = Returned(r)
        /\ event' = EngEv("start_dialog", "", session_id, 0)
        /\ UNCHANGED <<butlerVars, booking_flows, stale_flow, histVars, smVars, taskVars>>

DmGetNextPrompt(session_id) ==
    LET r == GetNextPrompt(active_dialogs, session_id)
    IN  /\ raised' = r.raised
        /\ response' = Returned(r)
        /\ event' = EngEv("get_next_prompt", "", session_id, 0)
        /\ UNCHANGED <<butlerVars, booking_flows, stale_flow, histVars, smVars, taskVars,
                       active_dialogs>>

DmProcessUserResponse(session_id, user_input) ==
    LET r == ProcessUserResponse(active_dialogs, session_id, user_input)
    IN  /\ active_dialogs' = r.dialogs
        /\ raised' = r.raised
        /\ response' = Returned(r)
        /\ event' = EngEv("process_user_response", user_input, session_id, 0)
        /\ UNCHANGED <<butlerVars, booking_flows, stale_flow, histVars, smVars, taskVars>>

NextDialog ==
    \/ \E sid \in DialogIds, ft \in FlowTypes, ic \in InitialContexts :
           DmStartDialog(sid, ft, ic)
    \/ \E sid \in DialogIds : DmGetNextPrompt(sid)
    \/ \E sid \in DialogIds, u \in DialogInputs : DmProcessUserResponse(sid, u)

SpecDialog == Init /\ [][NextDialog]_vars

----------------------------------------------------------------------------
(* The two flow stores EnhancedProductionButler owns, the booking flows of *)
(* its RealConversationEngine and the dialogs of its DialogManager, driven *)
(* together for several ids.                                               *)

FlowInputs == {"yes", "hello"}

NextFlows ==
    \/ \E usr \in Users : EngineStartBookingFlow(usr, "plumber")
    \/ \E usr \in Users, u \in FlowInputs : EngineContinueBookingFlow(u, usr)
    \/ \E sid \in DialogIds, ft \in FlowTypes : DmStartDialog(sid, ft, EmptyDict)
    \/ \E sid \in DialogIds : DmProcessUserResponse(sid, "yes")

SpecFlows == Init /\ [][NextFlows]_vars

----------------------------------------------------------------------------
(* SessionManager (src/src/conversation/session_manager.py), driven directly *)

MaxSessions == 3
MaxSessionTicks == 3
MaxSessionHistory == 1
SessionTickStep == 1800

\* the age in seconds after which a session is expired
session_lifetime == 3600

\* str(uuid.uuid4()): the n-th value drawn, never one drawn before
Uuid(n) == <<"u1", "u2", "u3", "u4", "u5", "u6">>[n]

NewSession(session_id, t) ==
    [session_id |-> session_id, created_at |-> t, last_activity |-> t,
     history |-> <<>>, current_services |-> None, service_type |-> None,
     location |-> None, user_preferences |-> EmptyDict]

NeedsNewSession_OnlyWhenUnset(sid, ss) == sid = None

\* `not self.current_session_id or self.current_session_id not in self.sessions`
NeedsNewSession(sid, ss) == sid = None \/ sid \notin DOMAIN ss

Expired_Never(t, since) == FALSE

\* `time.time() - session[...] > 3600`
Expired(t, since) == t - since > session_lifetime

SessionTick ==
    /\ now < MaxSessionTicks * SessionTickStep
    /\ now' = now + SessionTickStep
    /\ response' = <<>>
    /\ event' = Ev("tick", "", 0)
    /\ UNCHANGED <<pc, is_awake, last_interaction_time, active_booking, booking_data,
                   booking_flows, stale_flow, histVars, extVars>>

\* get_current_session with _create_new_session: the store, the current id
\* and the uuid count afterwards, the session returned, the exception raised
GetCurrentSession(ss0, cur0, count, t) ==
    LET fresh == Uuid(count + 1)
        create == NeedsNewSession(cur0, ss0)
        ss == IF create THEN Put(ss0, fresh, NewSession(fresh, t)) ELSE ss0
        cur == IF create THEN fresh ELSE cur0
    IN  IF cur \notin DOMAIN ss
        THEN [sessions |-> ss, current |-> cur, count |-> count,
              session |-> NoSession, raised |-> "KeyError"]
        ELSE IF Expired(t, ss[cur].created_at)
        THEN [sessions |-> Put(ss, fresh, NewSession(fresh, t)), current |-> fresh,
              count |-> count + 1, session |-> NewSession(fresh, t), raised |-> None]
        ELSE [sessions |-> ss, current |-> cur,
              count |-> IF create THEN count + 1 ELSE count,
              session |-> ss[cur], raised |-> None]

SmGetCurrentSession ==
    /\ session_count < MaxSessions
    /\ LET r == GetCurrentSession(sessions, current_session_id, session_count, now)
       IN  /\ raised' = r.raised
           /\ sessions' = r.sessions
           /\ current_session_id' = r.current
           /\ session_count' = r.count
           /\ held_session' = IF r.raised = None THEN r.session ELSE held_session
    /\ response' = <<>>
    /\ event' = Ev("get_current_session", "", 0)
    /\ UNCHANGED <<butlerVars, booking_flows, stale_flow, histVars, active_dialogs, taskVars>>

\* ConversationManager.update_context: one more exchange in the history of
\* the current session
SmUpdateContext ==
    /\ session_count < MaxSessions
    /\ LET r == GetCurrentSession(sessions, current_session_id, session_count, now)
       IN  /\ r.raised = None
           /\ Len(r.session.history) < MaxSessionHistory
           /\ LET session == [r.session EXCEPT
                                 !.history = LastN(Append(@, "exchange"), CmCapacity),
                                 !.last_activity = now]
              IN  /\ sessions' = Put(r.sessions, session.session_id, session)
                  /\ held_session' = session
           /\ current_session_id' = r.current
           /\ session_count' = r.count
    /\ response' = <<>>
    /\ event' = Ev("update_context", "", 0)
    /\ UNCHANGED <<butlerVars, booking_flows, stale_flow, histVars, dmVars, taskVars>>

\* update_session(session) with the session object the caller holds
SmUpdateSession ==
    /\ held_session # NoSession
    /\ LET session == [held_session EXCEPT !.last_activity = now]
       IN  /\ sessions' = Put(sessions, session.session_id, session)
           /\ held_session' = session
    /\ response' = <<>>
    /\ event' = Ev("update_session", "", 0)
    /\ UNCHANGED <<butlerVars, booking_flows, stale_flow, histVars, dmVars, taskVars,
                   current_session_id, session_count>>

SmClearCurrentSession ==
    /\ IF current_session_id # None
       THEN /\ sessions' = IF current_session_id \in DOMAIN sessions
                           THEN Del(sessions, current_session_id) ELSE sessions
            /\ current_session_id' = None
       ELSE UNCHANGED <<sessions, current_session_id>>
    /\ response' = <<>>
    /\ event' = Ev("clear_current_session", "", 0)
    /\ UNCHANGED <<butlerVars, booking_flows, stale_flow, histVars, dmVars, taskVars,
                   held_session, session_count>>

SmCleanupExpiredSessions_ByCreation ==
    /\ sessions' = [sid \in {x \in DOMAIN sessions :
                                ~Expired(now, sessions[x].created_at)}
                        |-> sessions[sid]]
    /\ response' = <<>>
    /\ event' = Ev("cleanup_expired_sessions", "", 0)
    /\ UNCHANGED <<butlerVars, booking_flows, stale_flow, histVars, dmVars, taskVars,
                   current_session_id, held_session, session_count>>

SmCleanupExpiredSessions ==
    /\ sessions' = [sid \in {x \in DOMAIN sessions :
                                ~Expired(now, sessions[x].last_activity)}
                        |-> sessions[sid]]
    /\ response' = <<>>
    /\ event' = Ev("cleanup_expired_sessions", "", 0)
    /\ UNCHANGED <<butlerVars, booking_flows, stale_flow, histVars, dmVars, taskVars,
                   current_session_id, held_session, session_count>>

SmShutdown ==
    /\ sessions' = EmptyDict
    /\ response' = <<>>
    /\ event' = Ev("shutdown", "", 0)
    /\ UNCHANGED <<butlerVars, booking_flows, stale_flow, histVars, dmVars, taskVars,
                   current_session_id, held_session, session_count>>

NextSession ==
    \/ SessionTick
    \/ SmGetCurrentSession
    \/ SmUpdateContext
    \/ SmUpdateSession
    \/ SmClearCurrentSession
    \/ SmCleanupExpiredSessions
    \/ SmShutdown

SpecSession == Init /\ [][NextSession]_vars

----------------------------------------------------------------------------
(* RealConversationEngine called from concurrent asyncio tasks             *)
(* (src/src/real_conversation_engine.py): a call runs without interruption *)
(* up to an await that suspends, and the only one is `asyncio.sleep(1)`   *)
(* inside complete_booking.                                               *)
----------------------------------------------------------------------------
\* `flow['step'] == 'confirmation'` and the input confirms: the call goes on
\* into complete_booking
ReachesCompleteBooking(flows, u, user_id) ==
    /\ user_id \in DOMAIN flows
    /\ flows[user_id].step = "confirmation"
    /\ Confirms(u)

\* start_booking_flow has no await: it runs in one piece
TaskStartBookingFlow(user_id, service_type) ==
    /\ booking_flows' = StartBookingFlow(booking_flows, user_id, service_type)
    /\ bookings_made' = [bookings_made EXCEPT ![user_id] = 0]
    /\ response' = <<>>
    /\ raised' = None
    /\ event' = EngEv("start_booking_flow", "", user_id, 0)
    /\ UNCHANGED <<butlerVars, stale_flow, histVars, active_dialogs, smVars,
                   pending>>

\* continue_booking_flow from its entry to its return, or to the
\* `await asyncio.sleep(1)` of complete_booking where the task is suspended
\* holding flow['data']
TaskContinueBookingFlow(t, u, user_id) ==
    /\ pending[t] = NoCall
    /\ IF ReachesCompleteBooking(booking_flows, u, user_id)
       THEN /\ pending' = [pending EXCEPT
                              ![t] = [user |-> user_id,
                                      data |-> booking_flows[user_id].data]]
            /\ bookings_made' = [bookings_made EXCEPT ![user_id] = @ + 1]
            /\ response' = <<>>
            /\ event' = EngEv("await_complete_booking", u, user_id, 0)
            /\ UNCHANGED booking_flows
       ELSE LET r == ContinueBookingFlow(booking_flows, u, user_id)
            IN  /\ booking_flows' = r.flows
                /\ response' = <<r.text>>
                /\ event' = EngEv("continue_booking_flow", u, user_id, r.booked)
                /\ UNCHANGED <<pending, bookings_made>>
    /\ raised' = None
    /\ UNCHANGED <<butlerVars, stale_flow, histVars, active_dialogs, smVars>>

\* the sleep is over: complete_booking returns its text and the caller runs
\* `del self.booking_flows[user_id]`, which raises KeyError when the entry
\* is not there
TaskResume(t) ==
    /\ pending[t] # NoCall
    /\ LET c == pending[t]
       IN  /\ event' = EngEv("complete_booking", "", c.user, 1)
           /\ IF c.user \in DOMAIN booking_flows
              THEN /\ booking_flows' = Del(booking_flows, c.user)
                   /\ response' = <<CompleteBooking(c.data)>>
                   /\ raised' = None
              ELSE /\ UNCHANGED booking_flows
                   /\ response' = <<>>
                   /\ raised' = "KeyError"
    /\ pending' = [pending EXCEPT ![t] = NoCall]
    /\ UNCHANGED <<butlerVars, stale_flow, histVars, active_dialogs, smVars,
                   bookings_made>>

NextTasks ==
    \/ \E usr \in Users : TaskStartBookingFlow(usr, "plumber")
    \/ \E t \in Tasks, usr \in Users, u \in FlowInputs :
           TaskContinueBookingFlow(t, u, usr)
    \/ \E t \in Tasks : TaskResume(t)

SpecTasks == Init /\ [][NextTasks]_vars

----------------------------------------------------------------------------
(* Properties *)

HasFlow(user_id) == user_id \in DOMAIN booking_flows

StepIndex(step) == CHOOSE i \in 1..Len(Steps) : Steps[i] = step

\* C1: in every reachable state an active flow implies the session is awake:
\* while is_awake is false no booking flow is recorded for the user.
C1_ActiveFlowImpliesAwake ==
    HasFlow(current_user_id) => is_awake

\* C2: when the loop finds the session timeout exceeded for an awake session,
\* the session is asleep and its flow is absent before the next utterance is
\* handled.
C2_TimeoutClearsFlow ==
    event.kind = "timeout" => (~is_awake /\ ~HasFlow(current_user_id))

\* C3: after a mid-flow session timed out and was woken again, the first
\* utterance that follows is never consumed as the next slot of the old flow.
C3_StaleFlowNeverResumed ==
    [][stale_flow => event'.kind # "continue"]_vars

\* C4: an exit phrase clears the flow and puts the session to sleep, without
\* advancing the step and without a call of complete_booking.
C4_ExitClearsFlow ==
    event.kind = "exit" =>
        (~is_awake /\ ~HasFlow(current_user_id) /\ event.booked = 0)

C8_WakeGating ==
    [][(/\ ~is_awake
        /\ pc = "wait_for_wake_word"
        /\ event'.kind \in {"wake", "nonwake"}
        /\ wake_word \notin Kw(event'.text)) =>
            (/\ response' = <<>>
             /\ UNCHANGED <<butlerVars, booking_flows, histVars>>)]_vars

\* C8 witness: a service request was heard asleep and nothing happened.
C8_Witness ==
    /\ event.kind = "nonwake"
    /\ event.text = "i need a plumber"
    /\ ~is_awake
    /\ response = <<>>
    /\ ~HasFlow(current_user_id)

\* C9: an utterance with the wake token heard asleep wakes the session,
\* refreshes the last activity, is acknowledged, and starts no flow.
C9_WakeConsumesTurn ==
    [][(/\ ~is_awake
        /\ pc = "wait_for_wake_word"
        /\ event'.kind \in {"wake", "nonwake"}
        /\ wake_word \in Kw(event'.text)) =>
            (/\ is_awake'
             /\ last_interaction_time' = now'
             /\ response' # <<>>
             /\ booking_flows' = booking_flows)]_vars

\* C9 witness: "butler plumber" woke the session and no flow exists.
C9_Witness ==
    /\ event.kind = "wake"
    /\ event.text = "butler plumber"
    /\ is_awake
    /\ last_interaction_time = now
    /\ ~HasFlow(current_user_id)

\* the n most recent of k exchanges, oldest first
Recent(k, n) == [i \in 1..Min(k, n) |-> k - Min(k, n) + i]

\* C10: no history exceeds its capacity, and each holds exactly its most
\* recent exchanges in chronological order.
C10_HistoryBound ==
    /\ \A usr \in DOMAIN hrg_history :
          /\ Len(hrg_history[usr]) <= HrgCapacity
          /\ hrg_history[usr] = Recent(hrg_count[usr], HrgCapacity)
    /\ Len(cm_history) <= CmCapacity
    /\ cm_history = Recent(cm_count, CmCapacity)
    /\ Len(mm_history) <= MmCapacity
    /\ mm_history = Recent(mm_count, MmCapacity)
    /\ Len(main_history) <= MainCapacity
    /\ main_history = Recent(main_count, MainCapacity)

\* C10 witness: every history has seen more exchanges than it can hold.
C10_Witness ==
    /\ current_user_id \in DOMAIN hrg_count
    /\ hrg_count[current_user_id] > HrgCapacity
    /\ cm_count > CmCapacity
    /\ mm_count > MmCapacity
    /\ main_count > MainCapacity

----------------------------------------------------------------------------
\* C11: when the classifier raises while an utterance is handled, the turn
\* ends with a non-empty fallback response, no flow is started, the awake
\* flag is unchanged and the main loop is back at the top of its iteration.
C11_ErrorsDegradeToFallback ==
    [][event'.kind = "error" =>
          /\ response' # <<>>
          /\ booking_flows' = booking_flows
          /\ is_awake' = is_awake
          /\ pc' = "loop_top"]_vars

C11_Witness ==
    /\ event.kind = "error"
    /\ response = <<"trouble_processing">>
    /\ is_awake
    /\ ~HasFlow(current_user_id)
    /\ pc = "loop_top"

----------------------------------------------------------------------------
\* C12: a prompt request or a user response for a dialog whose current step
\* is out of range raises nothing, returns a fallback response and clears
\* the dialog.
C12_OutOfRangeClearsFlow ==
    [][\A sid \in DOMAIN active_dialogs :
          (/\ ~InRange(active_dialogs[sid])
           /\ event'.kind \in {"get_next_prompt", "process_user_response"}
           /\ event'.user = sid)
          => /\ raised' = None
             /\ response' # <<>>
             /\ sid \notin DOMAIN active_dialogs']_vars

----------------------------------------------------------------------------
\* C13: whatever creations, updates, clears, cleanups and shutdowns came
\* before, get_current_session raises nothing and returns a session record,
\* the one stored under current_session_id.
C13_GetCurrentSessionSucceeds ==
    event.kind = "get_current_session" =>
        /\ raised = None
        /\ held_session # NoSession
        /\ current_session_id \in DOMAIN sessions
        /\ sessions[current_session_id] = held_session
        /\ held_session.session_id = current_session_id

\* a session is returned although sessions created earlier were removed
C13_Witness ==
    /\ event.kind = "get_current_session"
    /\ session_count >= 2
    /\ Cardinality(DOMAIN sessions) = 1
    /\ held_session # NoSession
    /\ sessions[current_session_id] = held_session

----------------------------------------------------------------------------
\* the entry of id k is the same in the stores d1 and d2
SameEntry(d1, d2, k) ==
    /\ (k \in DOMAIN d1) = (k \in DOMAIN d2)
    /\ k \in DOMAIN d1 => d1[k] = d2[k]

----------------------------------------------------------------------------
\* C15: an awake session without a flow that hears a bookable service
\* request starts a flow, and the turn ends with the flow at its first step
\* and the first step's prompt as the response.
C15_FlowEntryAtFirstStep ==
    [][(/\ pc = "listen_command"
        /\ is_awake
        /\ ~HasFlow(current_user_id)
        /\ event'.kind = "start")
       => /\ current_user_id \in DOMAIN booking_flows'
          /\ booking_flows'[current_user_id].step = Steps[1]
          /\ response' =
                 <<ProcessRealQuery(booking_flows, event'.text, current_user_id).text>>]_vars

----------------------------------------------------------------------------
\* C16 as stated: a greeting, thanks, capability query or emergency heard
\* by an awake session without a flow is answered and no flow exists after
\* the turn.
C16_NonFlowIntentLeavesFlowAbsent ==
    [][(/\ pc = "listen_command"
        /\ is_awake
        /\ ~HasFlow(current_user_id)
        /\ event'.kind \in {"chat", "emergency"})
       => /\ response' # <<>>
          /\ current_user_id \notin DOMAIN booking_flows']_vars

\* C16 amended: such an utterance is answered; booking_flows is untouched
\* unless the utterance holds an emergency word, and then the emergency
\* response is spoken and a flow is started at its first step.
C16_OnlyEmergencyStartsFlow ==
    [][(/\ pc = "listen_command"
        /\ is_awake
        /\ ~HasFlow(current_user_id)
        /\ event'.kind \in {"chat", "emergency"})
       => /\ response' # <<>>
          /\ IF AnyIn(EmergencyWords, event'.text)
             THEN /\ response' = <<"emergency_response">>
                  /\ current_user_id \in DOMAIN booking_flows'
                  /\ booking_flows'[current_user_id] =
                         [service_type |-> ExtractServiceType(event'.text),
                          step |-> Steps[1], data |-> EmptyDict]
             ELSE booking_flows' = booking_flows]_vars

C16_Witness ==
    /\ event.kind = "emergency"
    /\ is_awake
    /\ HasFlow(current_user_id)
    /\ booking_flows[current_user_id].step = "problem_details"
    /\ response = <<"emergency_response">>

----------------------------------------------------------------------------
\* C17: while a flow instance exists its step never moves back; a
\* continuation at one of its steps moves it forward by exactly one step,
\* and the only other change is the removal of the whole flow.
C17_StepMonotonic ==
    [][\A k \in Users \cup DialogIds :
          /\ (/\ k \in DOMAIN booking_flows
              /\ k \in DOMAIN booking_flows'
              /\ event'.kind # "start_booking_flow")
             => LET i == StepIndex(booking_flows[k].step)
                    j == StepIndex(booking_flows'[k].step)
                IN  /\ j >= i
                    /\ (event'.kind = "continue_booking_flow" /\ event'.user = k)
                           => j = i + 1
          /\ (/\ k \in DOMAIN active_dialogs
              /\ event'.kind # "start_dialog")
             => /\ k \in DOMAIN active_dialogs'
                /\ active_dialogs'[k].flow_type = active_dialogs[k].flow_type
                /\ active_dialogs'[k].current_step >= active_dialogs[k].current_step
                /\ (/\ event'.kind = "process_user_response"
                    /\ event'.user = k
                    /\ InRange(active_dialogs[k]))
                       => active_dialogs'[k].current_step =
                              active_dialogs[k].current_step + 1]_vars

\* both stores hold a flow that continuations have moved to a later step
C17_Witness ==
    /\ event.kind = "process_user_response"
    /\ event.user \in DOMAIN active_dialogs
    /\ active_dialogs[event.user].current_step = 3
    /\ "default" \in DOMAIN booking_flows
    /\ booking_flows["default"].step = "confirmation"

----------------------------------------------------------------------------
\* the step of id k in a flow store, "removed" when k has no flow
StepAfter(flows, k) == IF k \in DOMAIN flows THEN flows[k].step ELSE "removed"

----------------------------------------------------------------------------
\* the context keys DialogManager knows
SlotNames == {"service_type", "location", "datetime", "phone"}

\* C19: a user response handled at a step of a dialog writes the text
\* unmodified into one slot of the context and leaves every other value of
\* the context as it was; every step of every flow does so.
C19_EveryStepWritesItsSlot ==
    [][\A k \in DOMAIN active_dialogs :
          (/\ event'.kind = "process_user_response"
           /\ event'.user = k
           /\ InRange(active_dialogs[k]))
          => /\ k \in DOMAIN active_dialogs'
             /\ \E slot \in SlotNames :
                    /\ active_dialogs'[k].context =
                           Put(active_dialogs[k].context, slot, event'.text)
                    /\ slot \in DOMAIN active_dialogs'[k].context
                    /\ active_dialogs'[k].context[slot] = event'.text]_vars

----------------------------------------------------------------------------
\* C20: for every dialog the DialogManager holds, completed is true exactly
\* when current_step has moved past the last step of the dialog's flow.
C20_CompletedIffPastLastStep ==
    \A k \in DOMAIN active_dialogs :
        active_dialogs[k].completed =
            (active_dialogs[k].current_step
                 >= Len(conversation_flows[active_dialogs[k].flow_type]))

\* one dialog has been answered to its end while another is under way
C20_Witness ==
    /\ event.kind = "process_user_response"
    /\ event.user \in DOMAIN active_dialogs
    /\ active_dialogs[event.user].completed
    /\ \E k \in DOMAIN active_dialogs :
           /\ ~active_dialogs[k].completed
           /\ active_dialogs[k].current_step > 0

----------------------------------------------------------------------------
\* C21: complete_booking is called only for a user who has an active flow
\* at its last step, confirmation, with problem, timing and location
\* collected; never without a flow and never from an earlier step.
C21_ExecutorOnlyAtTerminalStep ==
    [][event'.booked > 0 =>
          /\ event'.booked = 1
          /\ event'.user \in DOMAIN booking_flows
          /\ booking_flows[event'.user].step = Steps[Len(Steps)]
          /\ {"problem", "timing", "location"}
                 \subseteq DOMAIN booking_flows[event'.user].data]_vars

\* a booking was made for one user while the other is still at an earlier step
C21_Witness ==
    /\ event.booked = 1
    /\ event.user = "guest"
    /\ "default" \in DOMAIN booking_flows
    /\ booking_flows["default"].step = "location"

----------------------------------------------------------------------------
\* the exit phrases of the claim and the whole words of an utterance
ExitPhrases == {"goodbye", "bye", "exit", "quit", "stop", "sleep"}

Words(u) ==
    CASE u = "butler plumber"   -> {"butler", "plumber"}
      [] u = "i need a plumber" -> {"i", "need", "a", "plumber"}
      [] u = "how much"         -> {"how", "much"}
      [] u = "what can you do"  -> {"what", "can", "you", "do"}
      [] OTHER                  -> {u}

\* C22: an awake session that hears one of goodbye, bye, exit, quit, stop,
\* sleep as a whole word says farewell, goes to sleep and has no flow left;
\* any other utterance leaves the session awake.
C22_ExitPhrasesSleep ==
    [][(/\ pc = "listen_command"
        /\ is_awake
        /\ event'.text # "")
       => IF (ExitPhrases \cap Words(event'.text)) # {}
          THEN /\ ~is_awake'
               /\ response' # <<>>
               /\ current_user_id \notin DOMAIN booking_flows'
          ELSE is_awake']_vars

----------------------------------------------------------------------------
----------------------------------------------------------------------------
\* C24: cleanup_expired_sessions at time t keeps exactly the sessions whose
\* last_activity is within 3600 seconds of t, unmodified, and removes every
\* other session.
C24_SweepRemovesExactlyInactive ==
    [][event'.kind = "cleanup_expired_sessions" =>
          /\ DOMAIN sessions' \subseteq DOMAIN sessions
          /\ \A sid \in DOMAIN sessions :
                 (sid \in DOMAIN sessions') =
                     (now - sessions[sid].last_activity <= session_lifetime)
          /\ \A sid \in DOMAIN sessions' : sessions'[sid] = sessions[sid]
          /\ current_session_id' = current_session_id]_vars

\* after a sweep: a session old by creation but active recently is kept
C24_Witness ==
    /\ event.kind = "cleanup_expired_sessions"
    /\ session_count >= 2
    /\ \E sid \in DOMAIN sessions :
           /\ now - sessions[sid].created_at > session_lifetime
           /\ now - sessions[sid].last_activity <= session_lifetime
    /\ \E n \in 1..session_count : Uuid(n) \notin DOMAIN sessions

----------------------------------------------------------------------------
\* C28: get_current_session never returns a session created more than 3600
\* seconds before the call; a current session older than that is replaced
\* by a new one with an unused id and an empty history, however recent its
\* last_activity.
C28_NoSessionOlderThanLifetime ==
    [][event'.kind = "get_current_session" =>
          /\ now - held_session'.created_at <= session_lifetime
          /\ (/\ current_session_id \in DOMAIN sessions
              /\ now - sessions[current_session_id].created_at > session_lifetime)
             => /\ held_session'.session_id \notin DOMAIN sessions
                /\ held_session'.history = <<>>
                /\ held_session'.created_at = now
                /\ current_session_id' = held_session'.session_id
                /\ sessions'[current_session_id'] = held_session']_vars

\* the replaced session is still stored: old by creation, active recently,
\* with a history
C28_Witness ==
    /\ event.kind = "get_current_session"
    /\ held_session # NoSession
    /\ held_session.history = <<>>
    /\ \E sid \in DOMAIN sessions :
           /\ sid # current_session_id
           /\ now - sessions[sid].created_at > session_lifetime
           /\ now - sessions[sid].last_activity <= session_lifetime
           /\ sessions[sid].history # <<>>

----------------------------------------------------------------------------
\* C25: while awake, an utterance with the wake word and no exit phrase is
\* answered with the listening acknowledgement only; it refreshes the
\* activity time and leaves every flow as it was, also when the utterance
\* names a service.
C25_WakeWordWhileAwakeOnlyAcknowledged ==
    [][(/\ pc = "listen_command"
        /\ is_awake
        /\ wake_word \in Kw(event'.text)
        /\ ~AnyIn(ExitWords, event'.text))
       => /\ response' = <<"yes_i_am_listening">>
          /\ booking_flows' = booking_flows
          /\ last_interaction_time' = now
          /\ is_awake']_vars

\* the wake word together with a service name, heard in the middle of a flow
C25_Witness ==
    /\ event.text = "butler plumber"
    /\ event.kind = "butler"
    /\ is_awake
    /\ HasFlow(current_user_id)
    /\ booking_flows[current_user_id].step = "location"
    /\ last_interaction_time = now

----------------------------------------------------------------------------
\* C26: when listen_command returns no text while the session is awake,
\* is_awake, the flows, the histories and last_interaction_time keep their
\* values and nothing is spoken.
C26_SilenceChangesNothing ==
    [][(pc = "listen_command" /\ event'.kind = "silence")
       => /\ response' = <<>>
          /\ UNCHANGED <<is_awake, last_interaction_time, booking_flows,
                         active_booking, booking_data, stale_flow, histVars, now>>]_vars

\* silence heard in the middle of a flow with the timeout already overdue
C26_Witness ==
    /\ event.kind = "silence"
    /\ is_awake
    /\ HasFlow(current_user_id)
    /\ now - last_interaction_time > session_timeout
    /\ pc = "loop_top"

----------------------------------------------------------------------------
\* C27: an awake session whose last interaction is more than
\* session_timeout seconds old, and which hears no further utterance,
\* eventually is asleep with the conversation state reset; and a sleeping
\* session wakes only when the wake word is detected.
C27_IdleSessionEventuallySleeps ==
    /\ (/\ is_awake
        /\ last_interaction_time # NoTime
        /\ now - last_interaction_time > session_timeout)
          ~> \/ /\ ~is_awake
                /\ active_booking = None
                /\ booking_data = EmptyDict
                /\ current_user_id \notin DOMAIN hrg_history
             \/ event.text # ""
    /\ [][(~is_awake /\ is_awake')
             => (event'.kind = "wake" /\ wake_word \in Kw(event'.text))]_vars

\* the session has been put to sleep by the timeout
C27_Witness ==
    /\ event.kind = "timeout"
    /\ ~is_awake
    /\ now - last_interaction_time > session_timeout
    /\ response = <<"timeout_sleep">>

----------------------------------------------------------------------------
\* C29: the data handed to get_booking_confirmation (when the location has
\* been given) and to complete_booking (when the booking is confirmed)
\* holds the service type the flow was started with and the problem, timing
\* and location collected.
C29_BookingDataHoldsServiceType ==
    [][\A k \in DOMAIN booking_flows :
          (/\ event'.user = k
           /\ event'.kind \in {"continue_booking_flow", "process_real_query"})
          => /\ (booking_flows[k].step = "location")
                  => /\ k \in DOMAIN booking_flows'
                     /\ {"service_type", "problem", "timing", "location"}
                            \subseteq DOMAIN booking_flows'[k].data
                     /\ booking_flows'[k].data["service_type"] =
                            booking_flows[k].service_type
             /\ (booking_flows[k].step = "confirmation" /\ event'.booked = 1)
                  => /\ {"service_type", "problem", "timing", "location"}
                            \subseteq DOMAIN booking_flows[k].data
                     /\ booking_flows[k].data["service_type"] =
                            booking_flows[k].service_type]_vars

----------------------------------------------------------------------------
\* C30: when continue_booking_flow calls for one user interleave at the
\* await inside the confirmation step, complete_booking runs at most once
\* for the flow the user started and removing the flow entry never fails.
C30_FlowCompletedAtMostOnce ==
    /\ \A usr \in Users : bookings_made[usr] <= 1
    /\ raised # "KeyError"

====
